---------------------------- MODULE Spec2Model ----------------------------
(***************************************************************************)
(* The WebSocket Pong server as a state machine.                           *)
(*                                                                         *)
(* The repository holds two builds of the server:                          *)
(*   "paddle"  src/main.go            paddles only; every applied move is  *)
(*                                    followed by broadcastUpdate          *)
(*   "full"    src/Dockerfile:299-690 paddles, ball physics and the 16 ms  *)
(*                                    gameLoop; moves are not broadcast    *)
(* The variable `variant` fixes which build a behaviour is of.             *)
(*                                                                         *)
(* Tasks are the goroutines: one handleConnections per connection (the     *)
(* connection's number) and the gameLoop (TickTask).  A sync.Mutex is the  *)
(* set of tasks holding it: {} when free, never more than one task.        *)
(*                                                                         *)
(* float64 ball coordinates are integers here: every value the program     *)
(* computes is an integer below 2^53 (sums of 400, 300, 20, 780, 0, 600    *)
(* and +-4), which float64 represents exactly.                             *)
(***************************************************************************)
EXTENDS Integers, FiniteSets, Sequences, TLC

(* ------------------------------ bounds -------------------------------- *)

\* connections (handler goroutines) that may exist at the same time
NumConns == 3

\* the gameLoop fires at most this many times in a behaviour
MaxTicks == 2

\* a behaviour of the full build starts after this many ticks of the
\* gameLoop with no client (the ball is then near the right edge)
StartTick == 99

\* a behaviour of the gameLoop alone starts after at most this many ticks
MaxStart == 480

(* ------------------------- program constants -------------------------- *)

CanvasWidth == 800

CanvasHeight == 600

PaddleHeight == 100

PaddleWidth == 20

MaxPaddleY == CanvasHeight - PaddleHeight

InitialPaddleY == CanvasHeight \div 2 - PaddleHeight \div 2

InitialVelocity == 4

Conns == 1 .. NumConns

TickTask == NumConns + 1

Tasks == Conns \cup {TickTask}

Absent == "absent"

Seats == {"left", "right"}

(* ----------------------------- pure code ------------------------------ *)

\* a clamp whose upper bound is the canvas, not the paddle's last position
clampToCanvas(y) ==
    IF y < 0 THEN 0
    ELSE IF y > CanvasHeight THEN CanvasHeight
    ELSE y

\* clampYPosition
clampYPosition(y) ==
    IF y < 0 THEN 0
    ELSE IF y > MaxPaddleY THEN MaxPaddleY
    ELSE y

\* assignPlayer, the scan of the registry: the roles some connection holds
rolesHeld(ap) == {s \in Seats : \E c \in Conns : ap[c] = s}

\* a decision that looks at the right seat first
assignDecisionRightFirst(ap) ==
    IF "right" \notin rolesHeld(ap) THEN "right"
    ELSE IF "left" \notin rolesHeld(ap) THEN "left"
    ELSE "none"

\* assignPlayer, the decision
assignDecision(ap) ==
    IF "left" \notin rolesHeld(ap) THEN "left"
    ELSE IF "right" \notin rolesHeld(ap) THEN "right"
    ELSE "none"

\* a Lock that returns whoever holds the mutex
CanLockUnguarded(m) == TRUE

\* sync.Mutex.Lock returns only while no task holds the mutex (it is not
\* reentrant: a task that holds it and locks it again waits forever)
CanLock(m) == m = {}

\* the initial ball
initialBall ==
    [X |-> CanvasWidth \div 2, Y |-> CanvasHeight \div 2,
     Vx |-> InitialVelocity, Vy |-> InitialVelocity]

\* a reset that serves the ball toward the side that has just lost
resetGameTowardLoser(b) ==
    [initialBall EXCEPT !.Vx = IF b.X < 0 THEN -InitialVelocity
                               ELSE InitialVelocity]

\* resetGame
resetGame(b) == initialBall

\* an integration that forgets the vertical component
integrateXOnly(b) == [b EXCEPT !.X = b.X + b.Vx]

\* updateBallPosition, "Update ball position"
integrate(b) == [b EXCEPT !.X = b.X + b.Vx, !.Y = b.Y + b.Vy]

\* float64 -> int conversion int(f): truncation toward zero; the ball
\* coordinates are integral, so the integer part is the value itself
intOf(f) == f

\* a wall step that knows the top wall only
wallCollideTopOnly(b) ==
    IF b.Y <= 0 THEN [b EXCEPT !.Y = 0, !.Vy = -b.Vy] ELSE b

\* updateBallPosition, the two wall collisions
wallCollide(b) ==
    LET top == IF b.Y <= 0 THEN [b EXCEPT !.Y = 0, !.Vy = -b.Vy] ELSE b
    IN  IF top.Y >= CanvasHeight
        THEN [top EXCEPT !.Y = CanvasHeight, !.Vy = -top.Vy]
        ELSE top

\* a paddle step whose paddles end one short of their lower edge
paddleCollideExclusive(b, ly, ry) ==
    LET l == IF /\ b.X <= PaddleWidth
                /\ intOf(b.Y) >= ly
                /\ intOf(b.Y) < ly + PaddleHeight
             THEN [b EXCEPT !.X = PaddleWidth, !.Vx = -b.Vx]
             ELSE b
    IN  IF /\ l.X >= CanvasWidth - PaddleWidth
           /\ intOf(l.Y) >= ry
           /\ intOf(l.Y) < ry + PaddleHeight
        THEN [l EXCEPT !.X = CanvasWidth - PaddleWidth, !.Vx = -l.Vx]
        ELSE l

\* updateBallPosition, the two paddle collisions
paddleCollide(b, ly, ry) ==
    LET l == IF /\ b.X <= PaddleWidth
                /\ intOf(b.Y) >= ly
                /\ intOf(b.Y) <= ly + PaddleHeight
             THEN [b EXCEPT !.X = PaddleWidth, !.Vx = -b.Vx]
             ELSE b
    IN  IF /\ l.X >= CanvasWidth - PaddleWidth
           /\ intOf(l.Y) >= ry
           /\ intOf(l.Y) <= ry + PaddleHeight
        THEN [l EXCEPT !.X = CanvasWidth - PaddleWidth, !.Vx = -l.Vx]
        ELSE l

\* updateBallPosition, "Check for game over": the winner, or "" for none
winnerOf(b) ==
    IF b.X < 0 THEN "right"
    ELSE IF b.X > CanvasWidth THEN "left"
    ELSE ""

\* one whole tick of updateBallPosition that ends without a game over
stepBall(b, ly, ry) == paddleCollide(wallCollide(integrate(b)), ly, ry)

\* the ball after k ticks of the gameLoop with no connection ever made
\* (both paddles at their initial position, no game over on the way)
RECURSIVE ticksFrom(_, _)
ticksFrom(b, k) ==
    IF k = 0 THEN b
    ELSE IF k = 1 THEN stepBall(b, InitialPaddleY, InitialPaddleY)
    ELSE CHOOSE r \in {ticksFrom(h, k - k \div 2) :
                          h \in {ticksFrom(b, k \div 2)}} : TRUE

ballAfter(k) == ticksFrom(initialBall, k)

\* a handler that goes on to register whatever assignPlayer returned
afterAssignNoReturn(p) == "reg"

\* handleConnections after assignPlayer: with "none" it writes the error
\* message and returns, otherwise it goes on to register
afterAssign(p) == IF p = "none" THEN "reject" ELSE "reg"

\* a cleanup that leaves the seat registry as it is
releaseNothing(ap, c) == ap

\* handleConnections, delete(assignedPlayers, ws)
releaseSeat(ap, c) == [ap EXCEPT ![c] = Absent]

(* ------------------------------ inputs -------------------------------- *)

\* the y field of an inbound JSON message: an integer, null or missing,
\* or a JSON string (which does not decode into *int)
YBelow == 0 - 7

YInside == 250

YAbove == 640

RawY ==
    {[kind |-> "int", v |-> n] : n \in {YBelow, YInside, YAbove}}
        \cup {[kind |-> "null", v |-> 0], [kind |-> "string", v |-> 0]}

\* the inbound frames: every move of a named player with an integer y,
\* and for each way of being malformed (y null, y a string, an unknown
\* type, an empty player) the frames that are malformed in that way alone
RawMessages ==
    {raw \in [type : {"move", "ping"},
              player : {"left", "right", "", "spectator"},
              y : RawY] :
        Cardinality({k \in {"type", "player", "y"} :
                        \/ k = "type" /\ raw.type /= "move"
                        \/ k = "player" /\ raw.player = ""
                        \/ k = "y" /\ raw.y.kind /= "int"}) <= 1}

\* ReadJSON's decoding of a frame into Message: json.Unmarshal fails on a
\* y that is not a JSON number or null
decodes(raw) == raw.y.kind /= "string"

\* the guard of the move branch of handleConnections
isMove(raw) == raw.type = "move" /\ raw.player /= "" /\ raw.y.kind = "int"

\* the handler's msg while it holds no move to apply
NoMsg == [player |-> "", y |-> 0]

\* the Message a move frame decodes into, as far as the move branch reads
\* it: *msg.Y is read only for the players "left" and "right"
decoded(raw) ==
    [player |-> raw.player,
     y |-> IF raw.player \in Seats THEN raw.y.v ELSE 0]

\* the zero Message: what a broadcast holds while it has built no message
NoMessage ==
    [type |-> "", leftY |-> 0, rightY |-> 0, ballX |-> 0, ballY |-> 0,
     winner |-> ""]

\* the update message built from the game state g: the full build puts
\* the ball's position in, the paddle build's Message has no such fields
updateMsg(v, g) ==
    [type |-> "update", leftY |-> g.PanYLeft, rightY |-> g.PanYRight,
     ballX |-> IF v = "full" THEN g.Ball.X ELSE 0,
     ballY |-> IF v = "full" THEN g.Ball.Y ELSE 0,
     winner |-> ""]

\* broadcastGameOver's message
gameOverMsg(w) == [NoMessage EXCEPT !.type = "gameover", !.winner = w]

(* ------------------------------- state -------------------------------- *)

VARIABLES
    variant,          \* "paddle" (src/main.go) or "full" (src/Dockerfile)
    pc,               \* pc[c]: where handleConnections of connection c is
    player,           \* player[c]: the handler's local `player`
    pend,             \* pend[c]: the decoded move the handler is applying
    err,              \* err[c]: the error ReadJSON returned to the handler
    closed,           \* closed[c]: the server has called c.Close()
    assignedPlayers,  \* the seat registry: connection -> seat or Absent
    clients,          \* the fan-out set: connection -> seat or Absent
    assignMutex,      \* holders of assignMutex
    clientsMutex,     \* holders of clientsMutex
    gameLock,         \* holders of gameState's embedded sync.Mutex
    PanYLeft,         \* gameState.PanYLeft
    PanYRight,        \* gameState.PanYRight
    Ball,             \* gameState.Ball
    tickPc,           \* where the gameLoop is
    ticks,            \* firings of the ticker so far
    bKind,            \* the running broadcast: "update", "gameover" or ""
    bTargets,         \* the connections in clients when its loop began
    bTodo,            \* the connections its loop has not visited yet
    bWritten,         \* the connections it has written its message to
    bFailed,          \* the connections its write failed on
    bMsg              \* the message it built and marshalled

connVars == <<pc, player, pend, err, closed>>

registryVars == <<assignedPlayers, clients, assignMutex, clientsMutex>>

gameVars == <<gameLock, PanYLeft, PanYRight, Ball>>

tickVars == <<tickPc, ticks>>

bcastVars == <<bKind, bTargets, bTodo, bWritten, bFailed, bMsg>>

vars == <<variant, connVars, registryVars, gameVars, tickVars, bcastVars>>

\* gameState as the code reads it inside its critical section
gameState == [PanYLeft |-> PanYLeft, PanYRight |-> PanYRight, Ball |-> Ball]

\* the state after construction.  In the full build main starts the
\* gameLoop before it serves connections: the model begins where StartTick
\* ticks without any client have taken the ball, just before the first
\* connection arrives.
Init ==
    /\ variant \in {"paddle", "full"}
    /\ pc = [c \in Conns |-> "idle"]
    /\ player = [c \in Conns |-> ""]
    /\ pend = [c \in Conns |-> NoMsg]
    /\ err = [c \in Conns |-> ""]
    /\ closed = [c \in Conns |-> FALSE]
    /\ assignedPlayers = [c \in Conns |-> Absent]
    /\ clients = [c \in Conns |-> Absent]
    /\ assignMutex = {}
    /\ clientsMutex = {}
    /\ gameLock = {}
    /\ PanYLeft = InitialPaddleY
    /\ PanYRight = InitialPaddleY
    /\ Ball \in IF variant = "full"
                THEN {ballAfter(StartTick)}
                ELSE {initialBall}
    /\ tickPc = "wait"
    /\ ticks = 0
    /\ bKind = ""
    /\ bTargets = {}
    /\ bTodo = {}
    /\ bWritten = {}
    /\ bFailed = {}
    /\ bMsg = NoMessage

\* a write to connection c can succeed only while the server has not
\* closed c; it can fail at any time (the peer may be gone)
WriteResults(c) == IF closed[c] THEN {FALSE} ELSE {TRUE, FALSE}

(* ------------------- handleConnections: admission --------------------- *)

\* a connection is upgraded and its handler enters assignPlayer, taking
\* assignMutex (an idle slot stands for a connection object not yet made;
\* the new connection is given the lowest idle number)
Connect(c) ==
    /\ pc[c] = "idle"
    /\ \A d \in Conns : d < c => pc[d] /= "idle"
    /\ CanLock(assignMutex)
    /\ assignMutex' = {c}
    /\ pc' = [pc EXCEPT ![c] = "scan"]
    /\ UNCHANGED <<player, pend, err, closed>>
    /\ UNCHANGED <<variant, assignedPlayers, clients, clientsMutex,
                   gameVars, tickVars, bcastVars>>

\* assignPlayer: the scan of assignedPlayers and the choice of the seat
AssignScan(c) ==
    /\ pc[c] = "scan"
    /\ player' = [player EXCEPT ![c] = assignDecision(assignedPlayers)]
    /\ pc' = [pc EXCEPT ![c] = "store"]
    /\ UNCHANGED <<variant, pend, err, closed, registryVars, gameVars,
                   tickVars, bcastVars>>

\* assignPlayer: the store into assignedPlayers and the deferred Unlock
AssignStore(c) ==
    /\ pc[c] = "store"
    /\ assignedPlayers' =
           IF player[c] /= "none"
           THEN [assignedPlayers EXCEPT ![c] = player[c]]
           ELSE assignedPlayers
    /\ assignMutex' = assignMutex \ {c}
    /\ pc' = [pc EXCEPT ![c] = afterAssign(player[c])]
    /\ UNCHANGED <<variant, player, pend, err, closed, clients,
                   clientsMutex, gameVars, tickVars, bcastVars>>

\* player == "none": write the error message (the result is not looked
\* at) and return; the deferred ws.Close ends the connection
Reject(c) ==
    /\ pc[c] = "reject"
    /\ pc' = [pc EXCEPT ![c] = "idle"]
    /\ player' = [player EXCEPT ![c] = ""]
    /\ closed' = [closed EXCEPT ![c] = FALSE]
    /\ UNCHANGED <<variant, pend, err, registryVars, gameVars, tickVars,
                   bcastVars>>

\* "Add to clients", under clientsMutex
Register(c) ==
    /\ pc[c] = "reg"
    /\ CanLock(clientsMutex)
    /\ clients' = [clients EXCEPT ![c] = player[c]]
    /\ pc' = [pc EXCEPT ![c] = "sendAssign"]
    /\ UNCHANGED <<variant, player, pend, err, closed, assignedPlayers,
                   assignMutex, clientsMutex, gameVars, tickVars, bcastVars>>

\* "Send assign message"; a failure is logged and the handler goes on
SendAssign(c) ==
    /\ pc[c] = "sendAssign"
    /\ pc' = [pc EXCEPT ![c] = "snap"]
    /\ UNCHANGED <<variant, player, pend, err, closed, registryVars, gameVars,
                   tickVars, bcastVars>>

\* the handler's initialMsg: the update message built from the game state
\* inside the critical section
initialMsg == updateMsg(variant, gameState)

\* "Send initial game state": Lock, copy the game state into initialMsg,
\* Unlock, then write initialMsg; a failure of the write is logged and the
\* handler goes on to its read loop
SendInitial(c) ==
    /\ pc[c] = "snap"
    /\ CanLock(gameLock)
    /\ pc' = [pc EXCEPT ![c] = "read"]
    /\ UNCHANGED <<variant, player, pend, err, closed, registryVars, gameVars,
                   tickVars, bcastVars>>

(* -------------------- handleConnections: read loop -------------------- *)

\* ReadJSON returns the connection's error: the peer is gone or the
\* server closed the connection.  The handler leaves its loop.
ReadError(c) ==
    /\ pc[c] = "read"
    /\ pc' = [pc EXCEPT ![c] = "unreg"]
    /\ err' = [err EXCEPT ![c] = "io"]
    /\ UNCHANGED <<variant, player, pend, closed, registryVars, gameVars,
                   tickVars, bcastVars>>

\* ReadJSON is handed the frame raw by a live connection.  A frame that
\* does not decode makes ReadJSON return json's error and the handler
\* leaves its loop; a move is applied next; anything else is logged as
\* "Invalid message" and the handler reads on.
ReadMessage(c, raw) ==
    /\ pc[c] = "read"
    /\ ~closed[c]
    /\ pc' = [pc EXCEPT ![c] = IF ~decodes(raw) THEN "unreg"
                                ELSE IF isMove(raw) THEN "move"
                                ELSE "read"]
    /\ pend' = [pend EXCEPT ![c] = IF decodes(raw) /\ isMove(raw)
                                    THEN decoded(raw)
                                    ELSE NoMsg]
    /\ err' = [err EXCEPT ![c] = IF decodes(raw) THEN "" ELSE "decode"]
    /\ UNCHANGED <<variant, player, closed, registryVars, gameVars,
                   tickVars, bcastVars>>

\* the paddle a move message stores into, by msg.Player
movesLeft(m) == m.player = "left"

\* an else branch without its test
movesRightElse(m) == m.player /= "left"

movesRight(m) == m.player /= "left" /\ m.player = "right"

\* the move branch: Lock, clamp, store if different, Unlock.  The paddle
\* build then calls broadcastUpdate, the full build reads on.
ApplyMove(c) ==
    /\ pc[c] = "move"
    /\ CanLock(gameLock)
    /\ PanYLeft' = IF /\ movesLeft(pend[c])
                      /\ clampYPosition(pend[c].y) /= PanYLeft
                   THEN clampYPosition(pend[c].y)
                   ELSE PanYLeft
    /\ PanYRight' = IF /\ movesRight(pend[c])
                       /\ clampYPosition(pend[c].y) /= PanYRight
                    THEN clampYPosition(pend[c].y)
                    ELSE PanYRight
    /\ pend' = [pend EXCEPT ![c] = NoMsg]
    /\ pc' = [pc EXCEPT ![c] = IF variant = "paddle" THEN "bcast" ELSE "read"]
    /\ UNCHANGED <<variant, player, err, closed, registryVars, gameLock,
                   Ball, tickVars, bcastVars>>

\* "Remove client on disconnect": delete(clients, ws) under clientsMutex
Unregister(c) ==
    /\ pc[c] = "unreg"
    /\ CanLock(clientsMutex)
    /\ clients' = [clients EXCEPT ![c] = Absent]
    /\ pc' = [pc EXCEPT ![c] = "unassign"]
    /\ UNCHANGED <<variant, player, pend, err, closed, assignedPlayers,
                   assignMutex, clientsMutex, gameVars, tickVars, bcastVars>>

\* delete(assignedPlayers, ws) under assignMutex; the handler returns and
\* the deferred ws.Close ends the connection
Unassign(c) ==
    /\ pc[c] = "unassign"
    /\ CanLock(assignMutex)
    /\ assignedPlayers' = releaseSeat(assignedPlayers, c)
    /\ pc' = [pc EXCEPT ![c] = "idle"]
    /\ player' = [player EXCEPT ![c] = ""]
    /\ err' = [err EXCEPT ![c] = ""]
    /\ closed' = [closed EXCEPT ![c] = FALSE]
    /\ UNCHANGED <<variant, pend, clients, assignMutex, clientsMutex,
                   gameVars, tickVars, bcastVars>>

(* ----------------------------- broadcasts ----------------------------- *)

\* the task running a broadcast loop holds clientsMutex
Broadcaster == clientsMutex

\* the broadcast task t is about to run, or "" when t is not at one:
\* broadcastUpdate (paddle build, after a move), broadcastGameState (full
\* build, after updateBallPosition), broadcastGameOver (full build, called
\* inside updateBallPosition)
broadcastDue(t) ==
    IF t \in Conns
    THEN IF pc[t] = "bcast" THEN "update" ELSE ""
    ELSE IF tickPc = "bcast" THEN "update"
    ELSE IF tickPc = "gameover" THEN "gameover"
    ELSE ""

\* broadcastUpdate / broadcastGameState / broadcastGameOver up to the
\* loop: gameState.Lock, build and marshal the message, clientsMutex.Lock
BroadcastBegin(t) ==
    /\ broadcastDue(t) /= ""
    /\ CanLock(gameLock)
    /\ CanLock(clientsMutex)
    /\ gameLock' = {t}
    /\ clientsMutex' = {t}
    /\ bKind' = broadcastDue(t)
    /\ bTargets' = {c \in Conns : clients[c] /= Absent}
    /\ bTodo' = {c \in Conns : clients[c] /= Absent}
    /\ bWritten' = {}
    /\ bFailed' = {}
    /\ bMsg' = IF broadcastDue(t) = "gameover"
               THEN gameOverMsg(winnerOf(Ball))
               ELSE updateMsg(variant, gameState)
    /\ IF t \in Conns
       THEN pc' = [pc EXCEPT ![t] = "loop"] /\ tickPc' = tickPc
       ELSE pc' = pc /\ tickPc' = "loop"
    /\ UNCHANGED <<variant, player, pend, err, closed, assignedPlayers,
                   clients, assignMutex, PanYLeft, PanYRight, Ball, ticks>>

\* a loop that returns at the first failed write
afterFailureReturn(todo, c) == {}

\* the loop's next turn after a failed write: range goes on to the
\* clients not yet visited
afterFailure(todo, c) == todo \ {c}

\* one turn of "for client := range clients": WriteMessage, and on an
\* error client.Close() and delete(clients, client)
BroadcastWrite(c, ok) ==
    /\ c \in bTodo
    /\ ok \in WriteResults(c)
    /\ IF ok
       THEN /\ bWritten' = bWritten \cup {c}
            /\ bTodo' = bTodo \ {c}
            /\ UNCHANGED <<closed, clients, bFailed>>
       ELSE /\ closed' = [closed EXCEPT ![c] = TRUE]
            /\ clients' = [clients EXCEPT ![c] = Absent]
            /\ bFailed' = bFailed \cup {c}
            /\ bTodo' = afterFailure(bTodo, c)
            /\ UNCHANGED bWritten
    /\ UNCHANGED <<variant, pc, player, pend, err, assignedPlayers,
                   assignMutex, clientsMutex, gameVars, tickVars, bKind,
                   bTargets>>
    /\ UNCHANGED bMsg

\* the loop is over: the deferred Unlocks run and the caller goes on.
\* After broadcastGameOver the caller is updateBallPosition, which calls
\* resetGame and returns.
BroadcastEnd(t) ==
    /\ Broadcaster = {t}
    /\ bTodo = {}
    /\ clientsMutex' = {}
    /\ gameLock' = {}
    /\ IF t \in Conns
       THEN /\ pc' = [pc EXCEPT ![t] = "read"]
            /\ UNCHANGED <<tickPc, Ball>>
       ELSE /\ pc' = pc
            /\ IF bKind = "gameover"
               THEN tickPc' = "bcast" /\ Ball' = resetGame(Ball)
               ELSE tickPc' = "wait" /\ Ball' = Ball
    /\ bKind' = ""
    /\ bTargets' = {}
    /\ bWritten' = {}
    /\ bFailed' = {}
    /\ bMsg' = NoMessage
    /\ UNCHANGED <<variant, player, pend, err, closed, assignedPlayers,
                   clients, assignMutex, PanYLeft, PanYRight, ticks, bTodo>>

(* ------------------------------ gameLoop ------------------------------ *)

\* the ticker fires; updateBallPosition takes the game-state lock and
\* moves the ball by its velocity
TickIntegrate ==
    /\ variant = "full"
    /\ tickPc = "wait"
    /\ ticks < MaxTicks
    /\ CanLock(gameLock)
    /\ gameLock' = {TickTask}
    /\ Ball' = integrate(Ball)
    /\ ticks' = ticks + 1
    /\ tickPc' = "collide"
    /\ UNCHANGED <<variant, connVars, registryVars, PanYLeft, PanYRight,
                   bcastVars>>

\* updateBallPosition: the wall and paddle collisions and the game-over
\* check.  With a winner it calls broadcastGameOver, still holding the
\* lock; with none it returns (the deferred Unlock runs) and the gameLoop
\* calls broadcastGameState.
TickCollide ==
    /\ tickPc = "collide"
    /\ Ball' = paddleCollide(wallCollide(Ball), PanYLeft, PanYRight)
    /\ IF winnerOf(Ball') /= ""
       THEN tickPc' = "gameover" /\ gameLock' = gameLock
       ELSE tickPc' = "bcast" /\ gameLock' = gameLock \ {TickTask}
    /\ UNCHANGED <<variant, connVars, registryVars, PanYLeft, PanYRight,
                   ticks, bcastVars>>

(* --------------------------- specification ---------------------------- *)

Next ==
    \/ \E c \in Conns : Connect(c)
    \/ \E c \in Conns : AssignScan(c)
    \/ \E c \in Conns : AssignStore(c)
    \/ \E c \in Conns : Reject(c)
    \/ \E c \in Conns : Register(c)
    \/ \E c \in Conns : SendAssign(c)
    \/ \E c \in Conns : SendInitial(c)
    \/ \E c \in Conns : ReadError(c)
    \/ \E c \in Conns, raw \in RawMessages : ReadMessage(c, raw)
    \/ \E c \in Conns : ApplyMove(c)
    \/ \E c \in Conns : Unregister(c)
    \/ \E c \in Conns : Unassign(c)
    \/ \E t \in Tasks : BroadcastBegin(t)
    \/ \E c \in Conns, ok \in BOOLEAN : BroadcastWrite(c, ok)
    \/ \E t \in Tasks : BroadcastEnd(t)
    \/ TickIntegrate
    \/ TickCollide

Spec == Init /\ [][Next]_vars

\* Scheduling.  The Go scheduler runs every runnable goroutine, so a step
\* of a task that holds a lock, or needs none, is taken once it stays
\* possible (WF).  A handler that waits in sync.Mutex.Lock to clean up is
\* handed the mutex after at most 1 ms of waiting (the mutex's starvation
\* mode), however often other tasks take it (SF).  The ticker fires every
\* 16 ms.  Nothing makes a peer connect, send or disconnect.
Fairness ==
    /\ \A c \in Conns :
           /\ WF_vars(AssignScan(c) \/ AssignStore(c))
           /\ SF_vars(Unregister(c) \/ Unassign(c))
    /\ WF_vars(\E c \in Conns, ok \in BOOLEAN : BroadcastWrite(c, ok))
    /\ WF_vars(\E t \in Tasks : BroadcastBegin(t) \/ BroadcastEnd(t))
    /\ WF_vars(TickIntegrate \/ TickCollide)

\* the frames of the behaviours checked under fairness: of the moves only
\* the one of player "left" with the negative y, and every malformed frame
\* of player "left"
FairFrames ==
    {raw \in RawMessages :
        /\ raw.player = "left"
        /\ raw.y.kind = "int" => raw.y.v = YBelow}

FairNext ==
    \/ \E c \in Conns : Connect(c)
    \/ \E c \in Conns : AssignScan(c)
    \/ \E c \in Conns : AssignStore(c)
    \/ \E c \in Conns : Reject(c)
    \/ \E c \in Conns : Register(c)
    \/ \E c \in Conns : SendAssign(c)
    \/ \E c \in Conns : SendInitial(c)
    \/ \E c \in Conns : ReadError(c)
    \/ \E c \in Conns, raw \in FairFrames : ReadMessage(c, raw)
    \/ \E c \in Conns : ApplyMove(c)
    \/ \E c \in Conns : Unregister(c)
    \/ \E c \in Conns : Unassign(c)
    \/ \E t \in Tasks : BroadcastBegin(t)
    \/ \E c \in Conns, ok \in BOOLEAN : BroadcastWrite(c, ok)
    \/ \E t \in Tasks : BroadcastEnd(t)
    \/ TickIntegrate
    \/ TickCollide

FairSpec == Init /\ [][FairNext]_vars /\ Fairness

(* ------------------------- the gameLoop alone ------------------------- *)

\* one tick of the gameLoop with the paddles at ly and ry: once a tick has
\* had a winner the gameLoop is blocked and the ball stays where it is
tickOnce(b, ly, ry) == IF winnerOf(b) /= "" THEN b ELSE stepBall(b, ly, ry)

\* the ball after k ticks of the gameLoop with the paddles kept at ly, ry
RECURSIVE ticksWith(_, _, _, _)
ticksWith(b, k, ly, ry) ==
    IF k = 0 THEN b
    ELSE IF k = 1 THEN tickOnce(b, ly, ry)
    ELSE CHOOSE r \in {ticksWith(h, k - k \div 2, ly, ry) :
                          h \in {ticksWith(b, k \div 2, ly, ry)}} : TRUE

\* where the players held their paddles (left, right) during the ticks
\* before a behaviour of PhysSpec starts: with the first pair both paddles
\* return the ball once (ticks 95 and 285) and the right one misses it at
\* tick 475; with the second the left paddle, held at the top, misses it
\* at tick 285 and the ball leaves the canvas on the left at tick 291
StartPaddles == {<<200, 500>>, <<0, 500>>}

\* the balls of the states in which the gameLoop awaits a firing, up to
\* MaxStart ticks after the start of the server
StartBalls ==
    {b \in {ticksWith(initialBall, k, h[1], h[2]) :
                k \in 0 .. MaxStart, h \in StartPaddles} :
        winnerOf(b) = ""}

\* where a move has put the left paddle just before the tick: around the
\* ball's y = 240 when it comes to the left paddle at tick 285
LeftSamples == {139, 140, 240, 241}

\* the same for the right paddle: the ball comes to it at y = 520 (tick
\* 95) and at y = 200 (tick 475)
RightSamples == {99, 100, 200, 201, 419, 420, MaxPaddleY}

\* the full build with no connection, MaxStart ticks or fewer after its
\* start, the paddles where the last moves have put them
PhysInit ==
    /\ variant = "full"
    /\ pc = [c \in Conns |-> "idle"]
    /\ player = [c \in Conns |-> ""]
    /\ pend = [c \in Conns |-> NoMsg]
    /\ err = [c \in Conns |-> ""]
    /\ closed = [c \in Conns |-> FALSE]
    /\ assignedPlayers = [c \in Conns |-> Absent]
    /\ clients = [c \in Conns |-> Absent]
    /\ assignMutex = {}
    /\ clientsMutex = {}
    /\ gameLock = {}
    /\ PanYLeft \in LeftSamples
    /\ PanYRight \in RightSamples
    /\ Ball \in StartBalls
    /\ tickPc = "wait"
    /\ ticks = 0
    /\ bKind = ""
    /\ bTargets = {}
    /\ bTodo = {}
    /\ bWritten = {}
    /\ bFailed = {}
    /\ bMsg = NoMessage

PhysNext ==
    \/ TickIntegrate
    \/ TickCollide
    \/ \E t \in Tasks : BroadcastBegin(t)
    \/ \E t \in Tasks : BroadcastEnd(t)

PhysSpec == PhysInit /\ [][PhysNext]_vars


(* =============================== claims =============================== *)

\* the connections in the seat registry with seat s
Holders(s) == {c \in Conns : assignedPlayers[c] = s}

\* the connections in the fan-out set
Registered == {c \in Conns : clients[c] /= Absent}

\* C1: in every reachable state at most one connection holds seat "left"
\* and at most one holds seat "right" in assignedPlayers, under every
\* interleaving of connects, moves, ticks and disconnects.
C1_SeatsInjective == \A s \in Seats : Cardinality(Holders(s)) <= 1

\* C1 witness: both seats are held, by two connections, while a third
\* connection is inside assignPlayer.
C1_Witness ==
    /\ Holders("left") /= {} /\ Holders("right") /= {}
    /\ \E c \in Conns : pc[c] = "store" /\ assignedPlayers[c] = Absent

\* C2: when assignPlayer returns, it has granted "left" if no connection
\* held left, else "right" if no connection held right, else "none"; a
\* grant is stored for the caller alone and "none" leaves the registry
\* unchanged.
C2_GrantRule ==
    [][\A c \in Conns :
          (pc[c] = "store" /\ pc'[c] /= "store") =>
              LET grant == IF Holders("left") = {} THEN "left"
                           ELSE IF Holders("right") = {} THEN "right"
                           ELSE "none"
              IN  /\ player[c] = grant
                  /\ grant = "none" => assignedPlayers' = assignedPlayers
                  /\ grant /= "none" =>
                         assignedPlayers' = [assignedPlayers EXCEPT ![c] = grant]
       ]_vars

\* C2 witness: a connection has been answered "none" while both seats are
\* held.
C2_Witness ==
    \E c \in Conns :
        /\ pc[c] = "reject" /\ player[c] = "none"
        /\ Holders("left") /= {} /\ Holders("right") /= {}

\* clamp(y, lo, hi) as the specification words it
Min(a, b) == IF a <= b THEN a ELSE b

Max(a, b) == IF a >= b THEN a ELSE b

Clamp(y, lo, hi) == Max(lo, Min(y, hi))

\* handler c finishes applying the move it read
MoveApplied(c) == pc[c] = "move" /\ pc'[c] /= "move"

\* C4: immediately after a move naming seat s with integer y (negative, in
\* range or above 500) is applied, the stored paddle position of s is
\* clamp(y, 0, 500); both paddle positions lie in [0, 500] in every
\* reachable state.
C4_MoveClamped ==
    /\ [](PanYLeft \in 0 .. 500 /\ PanYRight \in 0 .. 500)
    /\ [][\A c \in Conns :
             MoveApplied(c) =>
                 /\ pend[c].player = "left" =>
                        PanYLeft' = Clamp(pend[c].y, 0, 500)
                 /\ pend[c].player = "right" =>
                        PanYRight' = Clamp(pend[c].y, 0, 500)
         ]_vars

\* C4 witness: a move with a negative y has put the left paddle at 0 and a
\* move with y above 500 has put the right paddle at 500.
C4_Witness == PanYLeft = 0 /\ PanYRight = 500

\* C5: the paddle position of a seat changes only in the application of a
\* move received on the connection that holds that seat, whatever player
\* name the message carries.
C5_OwnPaddleOnly ==
    [][/\ PanYLeft' /= PanYLeft =>
              \E c \in Conns : MoveApplied(c) /\ assignedPlayers[c] = "left"
       /\ PanYRight' /= PanYRight =>
              \E c \in Conns : MoveApplied(c) /\ assignedPlayers[c] = "right"
      ]_vars

\* a frame the specification calls malformed: y missing, null or not a
\* number, an unknown type, or an empty player
Malformed(raw) ==
    \/ raw.y.kind /= "int"
    \/ raw.type /= "move"
    \/ raw.player = ""

\* C6: reading a malformed message on an active connection changes neither
\* paddle position and does not end the connection: the handler stays in
\* its read loop and the connection keeps its seat and its fan-out
\* registration.
C6_MalformedIgnored ==
    [][\A c \in Conns, raw \in RawMessages :
          (Malformed(raw) /\ ReadMessage(c, raw)) =>
              /\ pc'[c] = "read"
              /\ PanYLeft' = PanYLeft /\ PanYRight' = PanYRight
              /\ clients'[c] = clients[c]
              /\ assignedPlayers'[c] = assignedPlayers[c]
      ]_vars

\* C7: in a broadcast, the connections whose write failed, and only those,
\* have been removed from the fan-out set, and when the loop is over every
\* other connection that was registered has been written the message,
\* whichever order the connections were visited in.
C7_FaultIsolation ==
    Broadcaster /= {} =>
        /\ Registered = bTargets \ bFailed
        /\ bWritten \cap bFailed = {}
        /\ bTodo = {} => bWritten = bTargets \ bFailed

\* C7 witness: an update broadcast to two registered connections is over,
\* one write has failed and the other connection has been written.
C7_Witness ==
    /\ Broadcaster /= {} /\ bKind = "update" /\ bTodo = {}
    /\ Cardinality(bTargets) = 2
    /\ Cardinality(bFailed) = 1
    /\ Cardinality(bWritten) = 1

\* C8: a connection that assignPlayer answered "none" is in neither the
\* fan-out set nor the seat registry and is no target of any broadcast at
\* any point of its lifetime; its handler writes the error message and
\* returns, closing it.
C8_RejectedIsolated ==
    /\ [](\A c \in Conns :
             player[c] = "none" =>
                 /\ pc[c] \in {"store", "reject"}
                 /\ clients[c] = Absent
                 /\ assignedPlayers[c] = Absent
                 /\ c \notin bTargets)
    /\ [][\A c \in Conns :
             (pc[c] = "reject" /\ pc'[c] /= "reject") =>
                 /\ pc'[c] = "idle"
                 /\ clients' = clients
                 /\ assignedPlayers' = assignedPlayers
         ]_vars

\* C8 witness: a connection answered "none" is about to be sent the error
\* message while a broadcast to the two seated connections is running.
C8_Witness ==
    \E c \in Conns :
        /\ pc[c] = "reject"
        /\ Broadcaster /= {}
        /\ Cardinality(bTargets) = 2

\* C3: once the handler of a seated connection has had its read fail, the
\* connection is eventually in neither the fan-out set nor the seat
\* registry (in both builds, also after a scoring tick); and a connection
\* that arrives while a seat is free is granted a free seat, never "none".
C3_SeatFreedAndReusable ==
    /\ \A c \in Conns :
           (pc[c] = "unreg" /\ assignedPlayers[c] \in Seats)
               ~> (clients[c] = Absent /\ assignedPlayers[c] = Absent)
    /\ [](\A c \in Conns :
             pc[c] = "store" =>
                 /\ player[c] = "none" =>
                        Holders("left") /= {} /\ Holders("right") /= {}
                 /\ player[c] \in Seats => Holders(player[c]) = {})

\* C3 witness: every earlier connection is gone (one of them has moved the
\* left paddle) and a connection that arrived afterwards holds seat
\* "left", freed by the handler of the connection that held it before.
C3_Witness ==
    \E c \in Conns :
        /\ pc[c] = "reg" /\ assignedPlayers[c] = "left"
        /\ \A d \in Conns \ {c} : pc[d] = "idle"
        /\ PanYLeft /= InitialPaddleY

\* C9: a tick whose ball has left the canvas (x below 0: winner "right",
\* x above CanvasWidth: winner "left") writes the gameover message naming
\* the winner to every registered connection and completes with the ball
\* at (400, 300) and velocity (4, 4), seats and paddles unchanged, after
\* which the game goes on.
C9_GameOverThenReset ==
    \A w \in Seats :
        (tickPc = "gameover" /\ winnerOf(Ball) = w)
            ~> (/\ tickPc \in {"bcast", "wait"}
                /\ Ball = [X |-> 400, Y |-> 300, Vx |-> 4, Vy |-> 4])

\* C10: every terminal event is followed, before the next tick, by a
\* broadcast of a score message carrying the two score counters, the
\* winner's counter one higher than before.
C10_ScoreBroadcast == (tickPc = "gameover") ~> (bKind = "score")

\* C11: every firing of the ticker is followed by a completed physics step
\* and a completed broadcast, after which the gameLoop waits for the next
\* firing, also on a tick with a terminal event; the game-state lock is
\* always released again.
C11_TickNeverBlocks ==
    /\ (tickPc /= "wait") ~> (tickPc = "wait")
    /\ (TickTask \in gameLock) ~> (gameLock = {})

\* C12: no task holds the game-state lock together with clientsMutex or
\* assignMutex.
C12_LocksNotNested ==
    \A t \in Tasks : t \in gameLock => t \notin clientsMutex \cup assignMutex

\* C13: no write to a connection is performed by a task that holds the
\* game-state lock.
C13_NoWriteUnderGameLock ==
    [][(\E c \in Conns, ok \in BOOLEAN : BroadcastWrite(c, ok)) =>
           Broadcaster \cap gameLock = {}]_vars

\* C17: a connection is in the fan-out set only after its assign message
\* and its initial snapshot have been written, and no broadcast is written
\* to a connection whose assign message has not been written yet.
C17_HandshakeBeforeFanout ==
    \A c \in Conns :
        /\ c \in bWritten => pc[c] /= "sendAssign"
        /\ pc[c] = "sendAssign" => clients[c] = Absent

\* C18: once a broadcast in which the write to a connection failed is
\* over, that connection is in neither the fan-out set nor the seat
\* registry (its seat is free for the next arrival).
C18_FailedWriteFreesSeat ==
    \A c \in Conns :
        (closed[c] /\ c \notin bFailed) =>
            clients[c] = Absent /\ assignedPlayers[c] = Absent

\* no physics step is in progress: updateBallPosition is not between its
\* integration and its return
Quiescent == tickPc \notin {"collide", "gameover"}

\* C19: the update message a broadcast builds carries the paddle positions
\* and (full build) the ball position of the state at the instant it is
\* built, the initial snapshot is copied at one instant too, and at neither
\* instant is a physics step in progress (the ball integrated but not yet
\* collision-resolved or reset).
C19_SnapshotAtomic ==
    /\ [][(bMsg' /= bMsg /\ bMsg'.type = "update") =>
              /\ Quiescent
              /\ bMsg'.leftY = PanYLeft /\ bMsg'.rightY = PanYRight
              /\ variant = "full" =>
                     bMsg'.ballX = Ball.X /\ bMsg'.ballY = Ball.Y
         ]_vars
    /\ [][\A c \in Conns : (pc[c] = "snap" /\ pc'[c] /= "snap") => Quiescent
         ]_vars
    /\ [](bMsg.type = "update" =>
              /\ bMsg.leftY = PanYLeft /\ bMsg.rightY = PanYRight
              /\ variant = "full" =>
                     bMsg.ballX = Ball.X /\ bMsg.ballY = Ball.Y)

\* C19 witness: in the full build the broadcast of a completed tick (ball
\* at x = 800) has been written to a connection while a handler waits to
\* apply a move and another connection is about to copy its snapshot.
C19_Witness ==
    /\ variant = "full" /\ bKind = "update" /\ bMsg.ballX = 800
    /\ bWritten /= {}
    /\ \E c \in Conns : pc[c] = "move"
    /\ \E c \in Conns : pc[c] = "snap"

\* C20: no step of a connection handler (connecting, reading, applying a
\* move, broadcasting, disconnecting) changes the ball; only the
\* application of a move changes a paddle: a move naming "left" leaves the
\* right paddle alone and vice versa, a move naming neither changes
\* neither.
C20_InputFrame ==
    [][\A c \in Conns :
          pc'[c] /= pc[c] =>
              /\ Ball' = Ball
              /\ pc[c] /= "move" =>
                     PanYLeft' = PanYLeft /\ PanYRight' = PanYRight
              /\ (pc[c] = "move" /\ pend[c].player = "left") =>
                     PanYRight' = PanYRight
              /\ (pc[c] = "move" /\ pend[c].player = "right") =>
                     PanYLeft' = PanYLeft
              /\ (pc[c] = "move" /\ pend[c].player \notin Seats) =>
                     PanYLeft' = PanYLeft /\ PanYRight' = PanYRight
      ]_vars

\* C20 witness: a move naming "left" has been applied (the left paddle is
\* at 0, the right one where it was) and a handler is about to apply a
\* move naming "spectator" while the tick's broadcast is due.
C20_Witness ==
    /\ PanYLeft = 0 /\ PanYRight = InitialPaddleY
    /\ tickPc = "bcast"
    /\ \E c \in Conns : pc[c] = "move" /\ pend[c].player = "spectator"

\* the step of a tick that resolves the collisions of the integrated ball
CollisionStep == tickPc = "collide" /\ tickPc' /= "collide"

\* the integrated ball is at or beyond a wall
AtWall == Ball.Y <= 0 \/ Ball.Y >= CanvasHeight

\* the integrated ball is at the left (right) paddle's column and its y is
\* within the paddle, both ends included
HitsLeft ==
    /\ Ball.X <= PaddleWidth
    /\ Ball.Y >= PanYLeft /\ Ball.Y <= PanYLeft + PaddleHeight

HitsRight ==
    /\ Ball.X >= CanvasWidth - PaddleWidth
    /\ Ball.Y >= PanYRight /\ Ball.Y <= PanYRight + PaddleHeight

\* C14: when the integrated ball y is <= 0 (>= CanvasHeight) the tick sets
\* it to 0 (CanvasHeight) and negates vy once; otherwise y and vy stay;
\* away from the paddles' columns x and vx stay; after every completed
\* tick 0 <= ball y <= CanvasHeight.
C14_WallCollision ==
    /\ [][CollisionStep =>
              /\ Ball.Y <= 0 => Ball'.Y = 0 /\ Ball'.Vy = -Ball.Vy
              /\ Ball.Y >= CanvasHeight =>
                     Ball'.Y = CanvasHeight /\ Ball'.Vy = -Ball.Vy
              /\ ~AtWall => Ball'.Y = Ball.Y /\ Ball'.Vy = Ball.Vy
              /\ (Ball.X > PaddleWidth /\ Ball.X < CanvasWidth - PaddleWidth)
                     => Ball'.X = Ball.X /\ Ball'.Vx = Ball.Vx
         ]_vars
    /\ [](tickPc /= "collide" => Ball.Y >= 0 /\ Ball.Y <= CanvasHeight)

\* C14 witness: a second tick has bounced the ball off the top wall: it
\* is at y = 0 and now moves down.
C14_Witness ==
    /\ tickPc = "bcast" /\ ticks = 2
    /\ Ball.Y = 0 /\ Ball.Vy = InitialVelocity

\* C15: when the integrated ball is at the left paddle's column with its y
\* in [leftY, leftY + PaddleHeight], the tick sets x to PaddleWidth and
\* negates vx; symmetrically at the right paddle with x set to
\* CanvasWidth - PaddleWidth; when neither test holds x and vx stay; a
\* paddle collision away from the walls leaves y and vy as they are.
C15_PaddleCollision ==
    [][CollisionStep =>
           /\ HitsLeft => Ball'.X = PaddleWidth /\ Ball'.Vx = -Ball.Vx
           /\ HitsRight =>
                  Ball'.X = CanvasWidth - PaddleWidth /\ Ball'.Vx = -Ball.Vx
           /\ (~HitsLeft /\ ~HitsRight) =>
                  Ball'.X = Ball.X /\ Ball'.Vx = Ball.Vx
           /\ ((HitsLeft \/ HitsRight) /\ ~AtWall) =>
                  Ball'.Y = Ball.Y /\ Ball'.Vy = Ball.Vy
      ]_vars

\* C15 witness: the left paddle has returned a ball that met it at its
\* lower end, y = leftY + PaddleHeight.
C15_Witness ==
    /\ tickPc = "bcast"
    /\ Ball.X = PaddleWidth /\ Ball.Vx = InitialVelocity
    /\ Ball.Y = PanYLeft + PaddleHeight

\* C16: the integration moves the ball from (x, y) to (x + vx, y + vy) and
\* leaves the velocity and the paddles alone; when the integrated ball
\* meets no wall, no paddle and no end of the canvas the rest of the tick
\* changes nothing, so the tick's outcome is that one state.
C16_Integration ==
    /\ [][(tickPc = "wait" /\ tickPc' /= "wait") =>
              /\ Ball' = [X |-> Ball.X + Ball.Vx, Y |-> Ball.Y + Ball.Vy,
                          Vx |-> Ball.Vx, Vy |-> Ball.Vy]
              /\ PanYLeft' = PanYLeft /\ PanYRight' = PanYRight
         ]_vars
    /\ [][(/\ tickPc \in {"collide", "bcast", "loop"}
           /\ tickPc' /= tickPc
           /\ ~AtWall /\ ~HitsLeft /\ ~HitsRight
           /\ Ball.X >= 0 /\ Ball.X <= CanvasWidth) =>
              /\ Ball' = Ball
              /\ PanYLeft' = PanYLeft /\ PanYRight' = PanYRight
              /\ tickPc' /= "gameover"
         ]_vars

\* C16 witness: the first tick of the server is over, the ball at
\* (404, 304) with its velocity (4, 4).
C16_Witness ==
    /\ tickPc = "wait" /\ ticks = 1
    /\ Ball = [X |-> 404, Y |-> 304, Vx |-> 4, Vy |-> 4]

\* C21: every connection in the fan-out set is in the seat registry with
\* the same role, "left" or "right"; the fan-out set never has more than
\* two members.
C21_FanoutWithinRegistry ==
    /\ \A c \in Conns :
           clients[c] /= Absent =>
               clients[c] \in Seats /\ assignedPlayers[c] = clients[c]
    /\ Cardinality(Registered) <= 2

\* C21 witness: one seated connection is in the fan-out set, the other
\* seated one has been taken out of it by a failed broadcast write and
\* still holds its seat, and a third connection is being rejected.
C21_Witness ==
    /\ Cardinality(Registered) = 1
    /\ \E c \in Conns :
           closed[c] /\ clients[c] = Absent /\ assignedPlayers[c] \in Seats
    /\ \E c \in Conns : pc[c] = "reject"

\* handler c is inside the write of its assign message: it has called
\* ws.WriteJSON(assignMsg), which has not returned
HandlerWriting(c) == pc[c] = "sendAssign"

\* a broadcast of task t is at its write to connection c: c is the one
\* connection its loop over clients has left to visit
BroadcastWriting(t, c) == Broadcaster = {t} /\ bTodo = {c}

\* C22: no connection is being written by its own handler while the
\* broadcast of another task (another handler's broadcastUpdate, the
\* gameLoop's broadcastGameState) is at its write to the same connection.
C22_WritesSerialized ==
    \A c \in Conns, t \in Tasks :
        t /= c => ~(HandlerWriting(c) /\ BroadcastWriting(t, c))

Abs(n) == IF n < 0 THEN -n ELSE n

\* C23: in every reachable state |vx| = 4 and |vy| = 4; no step changes
\* more than the sign of a velocity component; and resetGame, applied to
\* the ball of any reachable state (whichever side has scored), gives the
\* velocity (+4, +4).
C23_ConstantSpeed ==
    /\ [](Abs(Ball.Vx) = 4 /\ Abs(Ball.Vy) = 4)
    /\ [][/\ Ball'.Vx \in {Ball.Vx, -Ball.Vx}
          /\ Ball'.Vy \in {Ball.Vy, -Ball.Vy}]_vars
    /\ [](resetGame(Ball).Vx = 4 /\ resetGame(Ball).Vy = 4)

\* C23 witness: the left paddle has missed the ball, which has left the
\* canvas on the left moving left: the right side has scored and the
\* reset is due.
C23_Witness ==
    /\ tickPc = "gameover" /\ winnerOf(Ball) = "right"
    /\ Ball.Vx = -4

=============================================================================
